---------------------------- MODULE Spec2Model ----------------------------
(***************************************************************************)
(* Model of the RAG question-answering service: the chunker                *)
(* (app/services/document_processor.py), the vector store wrapper          *)
(* (app/services/vector_store.py), the answer assembler                    *)
(* (app/services/qa_service.py) and the HTTP handlers (app/main.py).       *)
(*                                                                         *)
(* Strings the code slices, splits or strips are sequences of character    *)
(* codes; strings it only passes around are TLA+ strings.  Distances are   *)
(* counted in hundredths (30 is 0.30) and compared exactly.                *)
(***************************************************************************)
EXTENDS Integers, Sequences, FiniteSets, TLC

VARIABLES
    chunkIn,     \* arguments of the chunk_text call: [text, chunk_size, overlap]
    chunkOut,    \* its outcome: [status, chunks]
    qaModel,     \* QAService.model: "None" or "GenerativeModel"
    askIn,       \* the /ask request and what the backends do on it
    askOut,      \* the /ask response
    genCalls,    \* calls of model.generate_content so far
    settings,    \* app.config.settings: chunk_size, chunk_overlap, max_file_size_mb
    reqs,        \* the /upload requests, each with its position in the handler
    disk,        \* the files in the upload directory
    collection,  \* the entries of the Chroma collection, in insertion order
    nextUuid,    \* the number of uuid4() values drawn so far
    listOut      \* the last /documents response

chunkVars == <<chunkIn, chunkOut>>

answerVars == <<qaModel, askIn, askOut, genCalls>>

ingestVars == <<settings, reqs, disk, collection, nextUuid, listOut>>

vars == <<chunkIn, chunkOut, qaModel, askIn, askOut, genCalls,
          settings, reqs, disk, collection, nextUuid, listOut>>

(***************************************************************************)
(* Bounds of the chunker's inputs.                                         *)
(***************************************************************************)
MaxWords == 23

MaxWindow == 10

\* Largest max_chunks of a request (the code allows up to 20).
MaxChunks == 2

\* Number of /upload requests of a behaviour, and words of the longest
\* uploaded text.
MaxUploads == 2

MaxTextWords == 4

(***************************************************************************)
(* Python string and list primitives the code uses.                        *)
(***************************************************************************)
Min(a, b) == IF a <= b THEN a ELSE b

\* str.isspace() for one character: space, tab, newline, carriage return.
IsSpace(c) == c \in {32, 9, 10, 13}

\* s[lo:hi] for 0 <= lo and 0 <= hi, clamped to the length as Python does.
Slice(s, lo, hi) == SubSeq(s, lo + 1, Min(hi, Len(s)))

\* str.strip(): the text between the first and the last character that is not
\* whitespace.
Strip(s) ==
    LET solid == {i \in 1..Len(s) : ~IsSpace(s[i])}
    IN  IF solid = {} THEN <<>>
        ELSE SubSeq(s, CHOOSE i \in solid : \A j \in solid : i <= j,
                       CHOOSE i \in solid : \A j \in solid : j <= i)

\* str.split() with no argument: runs of whitespace separate the words and
\* no empty word is produced.  A word starts at a non-space character that
\* follows a space or the start, and runs to the next space or the end.
WordStarts(s) ==
    {i \in 1..Len(s) : ~IsSpace(s[i]) /\ (i = 1 \/ IsSpace(s[i - 1]))}

WordEnd(s, i) ==
    CHOOSE j \in i..Len(s) :
        /\ \A m \in i..j : ~IsSpace(s[m])
        /\ (j = Len(s) \/ IsSpace(s[j + 1]))

Split(s) ==
    LET starts   == WordStarts(s)
        Start(i) == i \in starts
        order    == SelectSeq([i \in 1..Len(s) |-> i], Start)
    IN  [k \in 1..Len(order) |-> SubSeq(s, order[k], WordEnd(s, order[k]))]

\* " ".join(ws): the words with one space between neighbours, put together
\* half by half.
RECURSIVE Join(_)
Join(ws) ==
    IF ws = <<>> THEN <<>>
    ELSE IF Len(ws) = 1 THEN ws[1]
    ELSE LET half == Len(ws) \div 2
         IN  Join(SubSeq(ws, 1, half)) \o <<32>> \o Join(SubSeq(ws, half + 1, Len(ws)))

\* range(start, stop, step) for step # 0, as the sequence of its values.
RangeLen(start, stop, step) ==
    IF step > 0 /\ start < stop THEN (stop - start + step - 1) \div step
    ELSE IF step < 0 /\ start > stop THEN (start - stop - step - 1) \div (0 - step)
    ELSE 0

PyRange(start, stop, step) ==
    [k \in 1..RangeLen(start, stop, step) |-> start + (k - 1) * step]

(***************************************************************************)
(* chunk_text: the loop body over range(0, len(words), chunk_size-overlap) *)
(* from its k-th value on, and the function.  range() raises ValueError    *)
(* for a zero step before the loop is entered.                             *)
(***************************************************************************)
\* Faulty variant: the loop without its break, one window per value of the range.
ChunkLoopNoBreak(words, chunk_size, rng, k, chunks) ==
    chunks \o [j \in 1..(Len(rng) - k + 1) |->
                 Join(Slice(words, rng[k + j - 1], rng[k + j - 1] + chunk_size))]

RECURSIVE ChunkLoop(_, _, _, _, _)
ChunkLoop(words, chunk_size, rng, k, chunks) ==
    IF k > Len(rng) THEN chunks
    ELSE LET i       == rng[k]
             chunk   == Join(Slice(words, i, i + chunk_size))
             chunks2 == IF Strip(chunk) # <<>> THEN Append(chunks, chunk) ELSE chunks
         IN  IF i + chunk_size >= Len(words)
             THEN chunks2
             ELSE ChunkLoop(words, chunk_size, rng, k + 1, chunks2)

\* Faulty strides: the overlap dropped, and the overlap added.
ChunkStepNoOverlap(chunk_size, overlap) == chunk_size

ChunkStepGap(chunk_size, overlap) == chunk_size + overlap

ChunkStep(chunk_size, overlap) == chunk_size - overlap

chunk_text(text, chunk_size, overlap) ==
    LET words == Split(text)
        step  == ChunkStep(chunk_size, overlap)
    IN  IF step = 0
        THEN [status |-> "ValueError", chunks |-> <<>>]
        ELSE [status |-> "returned",
              chunks |-> ChunkLoop(words, chunk_size,
                                   PyRange(0, Len(words), step), 1, <<>>)]

(***************************************************************************)
(* Input texts of the chunker: n distinct words, written either with       *)
(* single spaces or with leading, doubled and trailing whitespace.         *)
(***************************************************************************)
Word(k) == IF k % 2 = 0 THEN <<97 + k>> ELSE <<97 + k, 65>>

RECURSIVE MakeText(_, _, _)
MakeText(n, style, k) ==
    IF k >= n THEN (IF style = "padded" THEN <<10>> ELSE <<>>)
    ELSE (IF k = 0
          THEN (IF style = "padded" THEN <<32, 32>> ELSE <<>>)
          ELSE (IF style = "padded" THEN <<32, 10>> ELSE <<32>>))
         \o Word(k) \o MakeText(n, style, k + 1)

Styles == {"single", "padded"}

\* settings.chunk_size and settings.chunk_overlap as shipped: what chunk_text
\* takes for an argument left None.
DefaultChunkSize == 500

DefaultChunkOverlap == 50

\* A long text: n distinct words of three lower-case letters, single spaces.
LongWord(k) == <<97 + ((k \div 676) % 26), 97 + ((k \div 26) % 26), 97 + (k % 26)>>

LongInput(n) ==
    [i \in 1..(4 * n - 1) |->
        IF (i % 4) = 0 THEN 32 ELSE LongWord((i - 1) \div 4)[(i % 4)]]

\* chunk_text(text) on a text of 1000 words, window and overlap defaulted.
DefaultCall ==
    [text |-> LongInput(1000), chunk_size |-> DefaultChunkSize,
     overlap |-> DefaultChunkOverlap]

ChunkIdle ==
    /\ chunkIn = [text |-> <<>>, chunk_size |-> 1, overlap |-> 0]
    /\ chunkOut = [status |-> "idle", chunks |-> <<>>]

AnswerIdle ==
    /\ qaModel = "None"
    /\ askIn = [max_chunks |-> 0]
    /\ askOut = [status_code |-> 0]
    /\ genCalls = 0

IngestIdle ==
    /\ settings = [chunk_size |-> 1, chunk_overlap |-> 0, max_file_size_mb |-> 0]
    /\ reqs = <<>>
    /\ disk = {}
    /\ collection = <<>>
    /\ nextUuid = 0
    /\ listOut = [status_code |-> 0]

ChunkInit ==
    /\ AnswerIdle
    /\ IngestIdle
    /\ chunkIn \in [text : {MakeText(n, st, 0) : n \in 0..MaxWords, st \in Styles},
                    chunk_size : 0..MaxWindow,
                    overlap : 0..(MaxWindow + 1)] \cup {DefaultCall}
    /\ chunkOut = [status |-> "pending", chunks |-> <<>>]

CallChunk ==
    /\ chunkOut.status = "pending"
    /\ chunkOut' = chunk_text(chunkIn.text, chunkIn.chunk_size, chunkIn.overlap)
    /\ UNCHANGED chunkIn
    /\ UNCHANGED answerVars
    /\ UNCHANGED ingestVars

SpecChunk == ChunkInit /\ [][CallChunk]_vars

(***************************************************************************)
(* Claims about the chunker.                                               *)
(***************************************************************************)
ChunkWords == Split(chunkIn.text)

ChunkDone == chunkOut.status \in {"returned", "ValueError"}

ValidConfig == chunkIn.chunk_size > chunkIn.overlap /\ chunkIn.overlap >= 0

\* The chunk made of the words at positions lo..hi (0-based, inclusive).
WordsChunk(lo, hi) == Join(SubSeq(ChunkWords, lo + 1, hi + 1))

\* The positions (1-based) of the words of the sequence words that occur in
\* chunk c; the input words are pairwise distinct, so a word names its
\* position.
Positions(words, c) ==
    LET ws == Split(c)
    IN  {p \in 1..Len(words) : \E q \in 1..Len(ws) : ws[q] = words[p]}

\* C1: with overlap >= chunk_size, chunk_text fails for every text: it never
\* returns a chunk sequence, not even an empty one.
C1_InvalidConfigRejected ==
    (ChunkDone /\ chunkIn.overlap >= chunkIn.chunk_size)
        => chunkOut.status # "returned"

Is23Words_10_5 ==
    /\ Len(ChunkWords) = 23
    /\ chunkIn.chunk_size = 10
    /\ chunkIn.overlap = 5

\* C2 as stated: a 23-word input with chunk_size 10 and overlap 5 gives
\* exactly three chunks: words 0-9, 5-14 and 10-22.
C2_ThreeChunks ==
    (ChunkDone /\ Is23Words_10_5)
        => /\ chunkOut.status = "returned"
           /\ chunkOut.chunks =
                  <<WordsChunk(0, 9), WordsChunk(5, 14), WordsChunk(10, 22)>>

\* C2 amended: a 23-word input with chunk_size 10 and overlap 5 gives exactly
\* four chunks: words 0-9, 5-14, 10-19 and 15-22.
C2_FourChunks ==
    (ChunkDone /\ Is23Words_10_5)
        => /\ chunkOut.status = "returned"
           /\ chunkOut.chunks =
                  <<WordsChunk(0, 9), WordsChunk(5, 14),
                    WordsChunk(10, 19), WordsChunk(15, 22)>>

C2_Witness ==
    /\ ChunkDone
    /\ Is23Words_10_5
    /\ Len(chunkOut.chunks) = 4

\* C3: for a valid configuration every word position of the input occurs in
\* at least one chunk; with overlap 0 every position occurs in exactly one
\* chunk and the chunks are the consecutive blocks of chunk_size words, the
\* last one possibly shorter.
C3_Coverage ==
    (ChunkDone /\ ValidConfig)
        => LET words == Split(chunkIn.text)
               n     == Len(words)
               w     == chunkIn.chunk_size
               cs    == chunkOut.chunks
               block(k) == Join(SubSeq(words, (k - 1) * w + 1, Min(k * w, n)))
           IN  /\ chunkOut.status = "returned"
               /\ 1..n \subseteq UNION {Positions(words, cs[k]) : k \in 1..Len(cs)}
               /\ chunkIn.overlap = 0 =>
                     /\ Len(cs) = (n + w - 1) \div w
                     /\ \A k \in 1..Len(cs) : cs[k] = block(k)
                     /\ \A j, k \in 1..Len(cs) :
                           j # k => Positions(words, cs[j]) \cap Positions(words, cs[k]) = {}

\* A text of several windows chunked with an overlap, and one without.
C3_Witness ==
    /\ ChunkDone
    /\ ValidConfig
    /\ Len(ChunkWords) = 7
    /\ chunkIn.chunk_size = 3
    /\ chunkIn.overlap = 0
    /\ Len(chunkOut.chunks) = 3
    /\ Len(Split(chunkOut.chunks[3])) = 1

\* C11: for a valid configuration the call returns, and chunk k (from 0) is
\* the words at positions [k*(w-o), min(k*(w-o)+w, n)) for k up to and
\* including the first k with k*(w-o)+w >= n and no further: every chunk has
\* 1 to w words, only the last may have fewer than w, no text gives no chunk,
\* a text of at most w words gives one chunk holding it all, and 1000 words
\* with w = 500 and o = 50 give the three chunks of words 0-499, 450-949 and
\* 900-999.
C11_Windows ==
    (ChunkDone /\ ValidConfig)
        => LET words == Split(chunkIn.text)
               n     == Len(words)
               w     == chunkIn.chunk_size
               o     == chunkIn.overlap
               cs    == chunkOut.chunks
               \* the first k whose window reaches the end of the words
               last  == CHOOSE k \in 0..n :
                           /\ k * (w - o) + w >= n
                           /\ \A j \in 0..(k - 1) : j * (w - o) + w < n
               window(k) == Join(SubSeq(words, k * (w - o) + 1,
                                        Min(k * (w - o) + w, n)))
           IN  /\ chunkOut.status = "returned"
               /\ Len(cs) = IF n = 0 THEN 0 ELSE last + 1
               /\ \A k \in 1..Len(cs) :
                    /\ cs[k] = window(k - 1)
                    /\ Len(Split(cs[k])) >= 1
                    /\ Len(Split(cs[k])) <= w
                    /\ k < Len(cs) => Len(Split(cs[k])) = w
               /\ n = 0 => cs = <<>>
               /\ (0 < n /\ n <= w) => cs = <<Join(words)>>
               /\ (n = 1000 /\ w = 500 /\ o = 50) =>
                    cs = <<Join(SubSeq(words, 1, 500)),
                           Join(SubSeq(words, 451, 950)),
                           Join(SubSeq(words, 901, 1000))>>

\* The 1000-word text chunked with the default window and overlap: three
\* chunks, the last one of 100 words.
C11_Witness ==
    /\ ChunkDone
    /\ chunkIn = DefaultCall
    /\ Len(Split(chunkIn.text)) = 1000
    /\ Len(chunkOut.chunks) = 3
    /\ Len(Split(chunkOut.chunks[3])) = 100

(***************************************************************************)
(* The answer assembler: QAService (qa_service.py) behind /ask (main.py).  *)
(* A search result is [chunk_text, metadata, distance]; the generation     *)
(* backend either returns a response text or raises.  An answer text is a  *)
(* literal prefix followed by an interpolated body.                        *)
(***************************************************************************)
Literal(str) == [prefix |-> str, body |-> <<>>]

\* QAService.__init__: a model object only when an API key is configured.
QAServiceModel(gemini_api_key) ==
    IF gemini_api_key # "" THEN "GenerativeModel" ELSE "None"

RECURSIVE SumDistances(_)
SumDistances(search_results) ==
    IF search_results = <<>> THEN 0
    ELSE Head(search_results).distance + SumDistances(Tail(search_results))

\* Faulty variant: the thresholds taken inclusively.
ConfidenceInclusive(search_results) ==
    IF search_results = <<>> THEN "none"
    ELSE IF SumDistances(search_results) <= 30 * Len(search_results) THEN "high"
    ELSE IF SumDistances(search_results) <= 60 * Len(search_results) THEN "medium"
    ELSE "low"

\* _calculate_confidence: avg_distance = sum / len is compared with 0.3 and
\* 0.6; in hundredths, avg < 0.3 is sum < 30 * len.
_calculate_confidence(search_results) ==
    IF search_results = <<>> THEN "none"
    ELSE IF SumDistances(search_results) < 30 * Len(search_results) THEN "high"
    ELSE IF SumDistances(search_results) < 60 * Len(search_results) THEN "medium"
    ELSE "low"

\* dict.get("filename", "Unknown")
GetFilename(metadata) ==
    IF "filename" \in DOMAIN metadata THEN metadata.filename ELSE "Unknown"

Ellipsis == <<46, 46, 46>>

\* Faulty variant: the ellipsis appended only to a text that was cut.
FormatSourceConditional(result) ==
    [chunk_text |-> IF Len(result.chunk_text) > 200
                    THEN Slice(result.chunk_text, 0, 200) \o Ellipsis
                    ELSE result.chunk_text,
     document |-> GetFilename(result.metadata),
     relevance_score |-> 100 - result.distance]

\* One entry of _format_sources; 1.0 - distance is 100 - distance in hundredths.
FormatSource(result) ==
    [chunk_text |-> Slice(result.chunk_text, 0, 200) \o Ellipsis,
     document |-> GetFilename(result.metadata),
     relevance_score |-> 100 - result.distance]

_format_sources(search_results) ==
    [i \in 1..Len(search_results) |-> FormatSource(search_results[i])]

\* How a call ends: with a returned dict or a raised exception, after calls
\* invocations of model.generate_content.
Returned(result, calls) == [raised |-> FALSE, result |-> result, calls |-> calls]

Raised(detail, calls) == [raised |-> TRUE, detail |-> detail, calls |-> calls]

\* Faulty variant: the short-circuit on an empty result list never taken.
NoResultsNever(search_results) == FALSE

\* `not search_results`
NoResults(search_results) == search_results = <<>>

\* Faulty variant: the failure raised again instead of being turned into an answer.
ExceptReraise(search_results, gen) == Raised(gen.detail, 1)

\* The except branch of generate_answer, entered after the one failed call.
ExceptHandler(search_results, gen) ==
    Returned([answer |-> [prefix |-> "Error generating answer: ", body |-> gen.detail],
              sources |-> _format_sources(search_results),
              confidence |-> "error"], 1)

\* QAService.generate_answer, after search has returned search_results.
generate_answer(model, search_results, gen) ==
    IF NoResults(search_results)
    THEN Returned([answer |-> Literal("No relevant information found in the uploaded documents."),
                   sources |-> <<>>,
                   confidence |-> "none"], 0)
    ELSE IF model = "None"
    THEN Returned([answer |-> Literal("Gemini API key not configured. Please set GEMINI_API_KEY in .env file."),
                   sources |-> _format_sources(search_results),
                   confidence |-> "none"], 0)
    ELSE IF gen.kind = "ok"
    THEN Returned([answer |-> [prefix |-> "", body |-> Strip(gen.text)],
                   sources |-> _format_sources(search_results),
                   confidence |-> _calculate_confidence(search_results)], 1)
    ELSE ExceptHandler(search_results, gen)

\* ask_question: the dict becomes the 200 response; anything raised (by the
\* search, which generate_answer does not guard, or by generate_answer)
\* becomes a 500.
ask_question(model, search, gen) ==
    LET out == IF search.kind = "raise"
               THEN Raised(search.detail, 0)
               ELSE generate_answer(model, search.results, gen)
    IN  IF out.raised
        THEN [status_code |-> 500,
              detail |-> [prefix |-> "Error generating answer: ", body |-> out.detail],
              calls |-> out.calls]
        ELSE [status_code |-> 200,
              answer |-> out.result.answer,
              sources |-> out.result.sources,
              confidence |-> out.result.confidence,
              calls |-> out.calls]

(***************************************************************************)
(* Inputs of /ask: what the index returns and what the backend does.       *)
(***************************************************************************)
LongText(n) == [i \in 1..n |-> 97 + (i % 26)]

ChunkTexts == {LongText(150), LongText(200), LongText(230)}

Metadatas ==
    {[doc_id |-> "d1", filename |-> "policy.txt", chunk_index |-> 0],
     [doc_id |-> "d2", chunk_index |-> 1]}

\* Cosine distances in hundredths, between 0 and 2.
Distances == {0, 29, 30, 60, 120}

SearchResults == [chunk_text : ChunkTexts, metadata : Metadatas, distance : Distances]

\* search returns at most num_results results, nearest first.
SearchLists(num_results) ==
    {rs \in UNION {[1..n -> SearchResults] : n \in 0..num_results} :
        \A i \in 1..(Len(rs) - 1) : rs[i].distance <= rs[i + 1].distance}

SearchOutcomes(num_results) ==
    {[kind |-> "ok", results |-> rs] : rs \in SearchLists(num_results)}
        \cup {[kind |-> "raise", detail |-> <<73, 79>>]}

GenOutcomes ==
    {[kind |-> "ok", text |-> <<32, 79, 75, 10>>],
     [kind |-> "raise", detail |-> <<52, 50, 57>>]}

AnswerInit ==
    /\ ChunkIdle
    /\ IngestIdle
    /\ qaModel \in {QAServiceModel(key) : key \in {"", "key"}}
    /\ askIn = [max_chunks |-> 0]
    /\ askOut = [status_code |-> 0]
    /\ genCalls = 0

\* POST /ask, the whole handler.
AskQuestion ==
    /\ askOut.status_code = 0
    /\ \E max_chunks \in 1..MaxChunks :
         \E search \in SearchOutcomes(max_chunks) :
           \E gen \in GenOutcomes :
             LET resp == ask_question(qaModel, search, gen)
             IN  /\ askIn' = [max_chunks |-> max_chunks, search |-> search, gen |-> gen]
                 /\ askOut' = [f \in DOMAIN resp \ {"calls"} |-> resp[f]]
                 /\ genCalls' = genCalls + resp.calls
    /\ UNCHANGED qaModel
    /\ UNCHANGED chunkVars
    /\ UNCHANGED ingestVars

SpecAnswer == AnswerInit /\ [][AskQuestion]_vars

(***************************************************************************)
(* Claims about the answer assembler.                                      *)
(***************************************************************************)
Asked == askOut.status_code # 0

\* The search of the call returned normally, with these results.
Searched == Asked /\ askIn.search.kind = "ok"

GenerationFailed == askIn.gen.kind = "raise"

\* C4: when the search returns no result, the call returns normally with the
\* fixed text, no sources and confidence "none", and the generation backend
\* is not invoked, whether or not a backend is configured.
C4_NoResultsShortCircuit ==
    (Searched /\ askIn.search.results = <<>>)
        => /\ askOut.status_code = 200
           /\ askOut.answer =
                  Literal("No relevant information found in the uploaded documents.")
           /\ askOut.sources = <<>>
           /\ askOut.confidence = "none"
           /\ genCalls = 0

\* No result, although a backend is configured (and would have failed).
C4_Witness ==
    /\ Searched
    /\ askIn.search.results = <<>>
    /\ qaModel = "GenerativeModel"
    /\ GenerationFailed
    /\ askOut.status_code = 200

\* C5: with at least one result and a backend configured, a failing
\* generation is invoked exactly once and is not propagated: the response is
\* a 200 whose answer starts with "Error generating answer: ", whose sources
\* hold one entry per result, and whose confidence is "error".
C5_GenerationFailureAbsorbed ==
    (Searched /\ askIn.search.results # <<>> /\ qaModel = "GenerativeModel"
        /\ GenerationFailed)
        => /\ genCalls = 1
           /\ askOut.status_code = 200
           /\ askOut.answer.prefix = "Error generating answer: "
           /\ askOut.answer.body = askIn.gen.detail
           /\ Len(askOut.sources) = Len(askIn.search.results)
           /\ \A i \in 1..Len(askOut.sources) :
                askOut.sources[i].document = GetFilename(askIn.search.results[i].metadata)
           /\ askOut.confidence = "error"

C5_Witness ==
    /\ Searched
    /\ Len(askIn.search.results) = 2
    /\ qaModel = "GenerativeModel"
    /\ GenerationFailed
    /\ askOut.status_code = 200
    /\ Len(askOut.sources) = 2

\* Whether the mean of the distances ds (in hundredths) is below t hundredths.
MeanBelow(ds, t) == SumDistances(ds) < t * Len(ds)

\* C6: the confidence is "none" without results or without a backend,
\* "error" when the generation failed, and otherwise "high" for a mean
\* distance below 0.3, "medium" from 0.3 to below 0.6, "low" from 0.6 on.
C6_ConfidenceLabel ==
    Searched
        => LET rs == askIn.search.results
           IN  /\ askOut.status_code = 200
               /\ askOut.confidence =
                    IF rs = <<>> \/ qaModel = "None" THEN "none"
                    ELSE IF GenerationFailed THEN "error"
                    ELSE IF MeanBelow(rs, 30) THEN "high"
                    ELSE IF MeanBelow(rs, 60) THEN "medium"
                    ELSE "low"

\* Two results of distances 0 and 0.6: a mean of exactly 0.3, "medium".
C6_Witness ==
    /\ Searched
    /\ Len(askIn.search.results) = 2
    /\ askIn.search.results[1].distance = 0
    /\ askIn.search.results[2].distance = 60
    /\ qaModel = "GenerativeModel"
    /\ ~GenerationFailed
    /\ askOut.confidence = "medium"

\* C7: with at least one result, on each of the three paths, sources holds
\* one entry per result in the order of the results (so at most max_chunks);
\* entry i is the first 200 characters of the chunk text of result i followed
\* by the ellipsis, also for a text of 200 characters or fewer, the filename
\* of the metadata ("Unknown" if absent), and 1 - distance.
C7_Sources ==
    (Searched /\ askIn.search.results # <<>>)
        => LET rs == askIn.search.results
               ss == askOut.sources
           IN  /\ askOut.status_code = 200
               /\ Len(ss) = Len(rs)
               /\ Len(ss) <= askIn.max_chunks
               /\ \A i \in 1..Len(rs) :
                    /\ ss[i].chunk_text =
                         SubSeq(rs[i].chunk_text, 1, Min(200, Len(rs[i].chunk_text)))
                             \o Ellipsis
                    /\ ss[i].document =
                         (IF "filename" \in DOMAIN rs[i].metadata
                          THEN rs[i].metadata.filename ELSE "Unknown")
                    /\ ss[i].relevance_score = 100 - rs[i].distance

\* A chunk of 150 characters whose source text has 153, and one of 230
\* characters cut to 203, the second without a filename and with a negative
\* relevance score.
C7_Witness ==
    /\ Searched
    /\ Len(askIn.search.results) = 2
    /\ Len(askIn.search.results[1].chunk_text) = 150
    /\ Len(askIn.search.results[2].chunk_text) = 230
    /\ "filename" \notin DOMAIN askIn.search.results[2].metadata
    /\ askIn.search.results[2].distance = 120
    /\ Len(askOut.sources[1].chunk_text) = 153
    /\ Len(askOut.sources[2].chunk_text) = 203
    /\ askOut.sources[2].document = "Unknown"
    /\ askOut.sources[2].relevance_score = -20

(***************************************************************************)
(* Ingestion: upload_document (main.py) with save_uploaded_file and        *)
(* extract_text (document_processor.py) and VectorStore.add_documents and  *)
(* list_documents (vector_store.py).                                       *)
(***************************************************************************)
\* settings.max_file_size_mb as shipped.
DefaultMaxFileSizeMb == 10

\* Path(name).suffix, for the file names of the model.
PathSuffix(name) ==
    CASE name = "policy.txt" -> ".txt"
      [] name = "scan.PDF"   -> ".PDF"
      [] name = "setup.exe"  -> ".exe"
      [] OTHER               -> ""

\* str.lower(), for the suffixes of the model.
Lower(suffix) ==
    CASE suffix = ".PDF" -> ".pdf"
      [] suffix = ".TXT" -> ".txt"
      [] OTHER           -> suffix

allowed_extensions == {".pdf", ".txt", ".docx"}

\* str(uuid.uuid4()): the n-th value drawn, a non-empty string unlike any other.
Uuid4(n) == <<"uuid4", n>>

\* file_size_mb > settings.max_file_size_mb, with file_size_mb = size / (1024 * 1024).
TooLarge(size, max_file_size_mb) == size > max_file_size_mb * 1024 * 1024

\* Faulty variant: an identifier that leaves the document out.
ChunkIdIndexOnly(doc_id, i) == <<<<>>, "_chunk_", i>>

\* f"{doc_id}_chunk_{i}"
ChunkId(doc_id, i) == <<doc_id, "_chunk_", i>>

\* The ids, documents and metadatas that add_documents hands to
\* collection.add, one entry per chunk.
AddBatch(chunks, doc_id, filename) ==
    [k \in 1..Len(chunks) |->
        [id |-> ChunkId(doc_id, k - 1),
         document |-> chunks[k],
         metadata |-> [doc_id |-> doc_id, filename |-> filename, chunk_index |-> k - 1]]]

\* VectorStore.add_documents: one collection.add for the whole batch, which
\* stores it or raises (add is "ok", "ValueError" or "Exception").
add_documents(coll, chunks, doc_id, filename, add) ==
    IF add = "ok"
    THEN [kind |-> "return", value |-> Len(chunks),
          collection |-> coll \o AddBatch(chunks, doc_id, filename)]
    ELSE [kind |-> add, collection |-> coll]

\* The try block of upload_document once the file is saved: how it ends,
\* the collection and the upload directory it leaves, and the call of
\* add_documents it made, if any.
UploadTry(req, extract, add, coll, files, uuid) ==
    LET nocall == [called |-> FALSE]
    IN
    IF extract.kind # "text"
    THEN [kind |-> extract.kind, collection |-> coll, disk |-> files, put |-> nocall]
    ELSE IF Strip(extract.text) = <<>>
    THEN [kind |-> "HTTPException", status_code |-> 400,
          detail |-> "No text content found in document",
          collection |-> coll, disk |-> files \ {req.file_path}, put |-> nocall]
    ELSE LET chunked == chunk_text(extract.text, settings.chunk_size,
                                   settings.chunk_overlap)
         IN  IF chunked.status = "ValueError"
             THEN [kind |-> "ValueError", collection |-> coll, disk |-> files,
                   put |-> nocall]
             ELSE LET doc_id == Uuid4(uuid)
                      added  == add_documents(coll, chunked.chunks, doc_id,
                                              req.file.filename, add)
                      call   == [called |-> TRUE, chunks |-> chunked.chunks,
                                 doc_id |-> doc_id, outcome |-> added.kind]
                  IN  IF added.kind = "return"
                      THEN [kind |-> "return",
                            response |-> [status_code |-> 200,
                                          doc_id |-> doc_id,
                                          filename |-> req.file.filename,
                                          num_chunks |-> added.value,
                                          message |-> "Document uploaded and processed successfully"],
                            collection |-> added.collection, disk |-> files,
                            put |-> call]
                      ELSE [kind |-> added.kind, collection |-> coll,
                            disk |-> files, put |-> call]

\* The except clauses of upload_document: ValueError gives a 400, every
\* other Exception a 500.  HTTPException is an Exception and no ValueError.
UploadExcept(tried) ==
    IF tried.kind = "return" THEN tried.response
    ELSE IF tried.kind = "ValueError" THEN [status_code |-> 400, detail |-> "ValueError"]
    ELSE [status_code |-> 500, detail |-> "Error processing document"]

\* Faulty variant: one entry per index entry, without the test for a document seen.
ListLoopNoDedupe(metadatas, k, unique_docs) ==
    [i \in 1..Len(metadatas) |->
        [doc_id |-> metadatas[i].doc_id, filename |-> GetFilename(metadatas[i])]]

\* The loop of list_documents over the metadatas from the k-th on;
\* unique_docs is the dict built so far, as the sequence of its values.
RECURSIVE ListLoop(_, _, _)
ListLoop(metadatas, k, unique_docs) ==
    IF k > Len(metadatas) THEN unique_docs
    ELSE LET metadata == metadatas[k]
             doc_id   == metadata.doc_id
             seen     == \E j \in 1..Len(unique_docs) : unique_docs[j].doc_id = doc_id
         IN  IF doc_id # <<>> /\ ~seen
             THEN ListLoop(metadatas, k + 1,
                           Append(unique_docs,
                                  [doc_id |-> doc_id, filename |-> GetFilename(metadata)]))
             ELSE ListLoop(metadatas, k + 1, unique_docs)

\* VectorStore.list_documents over the entries collection.get() returns.
list_documents(coll) ==
    LET metadatas == [i \in 1..Len(coll) |-> coll[i].metadata]
    IN  IF metadatas # <<>> THEN ListLoop(metadatas, 1, <<>>) ELSE <<>>

(***************************************************************************)
(* Inputs of the ingestion.                                                *)
(***************************************************************************)
Filenames == {"policy.txt", "scan.PDF", "setup.exe"}

FileSizes == {DefaultMaxFileSizeMb * 1024 * 1024, DefaultMaxFileSizeMb * 1024 * 1024 + 1}

Files == [filename : Filenames, size : FileSizes]

\* Extracted texts: empty, whitespace only, one word, MaxTextWords words.
IngestTexts ==
    {<<>>, <<32, 10>>, MakeText(1, "padded", 0), MakeText(MaxTextWords, "single", 0)}

\* extract_text returns the text or raises: ValueError (a text file that is
\* not UTF-8) or another exception (a broken PDF).
ExtractOutcomes ==
    {[kind |-> "text", text |-> t] : t \in IngestTexts}
        \cup {[kind |-> "ValueError"], [kind |-> "Exception"]}

\* Window and overlap as configured in the environment.
ChunkConfigs ==
    {[chunk_size |-> 2, chunk_overlap |-> 1],
     [chunk_size |-> 3, chunk_overlap |-> 0],
     [chunk_size |-> 2, chunk_overlap |-> 2]}

IngestInit ==
    /\ ChunkIdle
    /\ AnswerIdle
    /\ settings \in {[chunk_size |-> c.chunk_size, chunk_overlap |-> c.chunk_overlap,
                      max_file_size_mb |-> DefaultMaxFileSizeMb] : c \in ChunkConfigs}
    /\ reqs = <<>>
    /\ disk = {}
    /\ collection = <<>>
    /\ nextUuid = 0
    /\ listOut = [status_code |-> 0]

\* POST /upload up to the await in save_uploaded_file: the two validations,
\* then the staged file is created under a fresh name.
UploadBegin ==
    /\ Len(reqs) < MaxUploads
    /\ \E file \in Files :
         LET file_extension == Lower(PathSuffix(file.filename))
         IN  IF file_extension \notin allowed_extensions
             THEN /\ reqs' = Append(reqs, [pc |-> "done", file |-> file,
                                           response |-> [status_code |-> 400,
                                                         detail |-> "File type not supported"]])
                  /\ UNCHANGED <<disk, nextUuid>>
             ELSE IF TooLarge(file.size, settings.max_file_size_mb)
             THEN /\ reqs' = Append(reqs, [pc |-> "done", file |-> file,
                                           response |-> [status_code |-> 400,
                                                         detail |-> "File size exceeds maximum allowed size"]])
                  /\ UNCHANGED <<disk, nextUuid>>
             ELSE LET file_path == <<Uuid4(nextUuid + 1), PathSuffix(file.filename)>>
                  IN  /\ reqs' = Append(reqs, [pc |-> "saving", file |-> file,
                                               file_path |-> file_path])
                      /\ disk' = disk \cup {file_path}
                      /\ nextUuid' = nextUuid + 1
    /\ UNCHANGED <<settings, collection, listOut>>
    /\ UNCHANGED chunkVars
    /\ UNCHANGED answerVars

\* POST /upload from the await on: the content is written, the text is
\* extracted, chunked and added to the collection, and the response is sent.
UploadFinish ==
    /\ \E r \in 1..Len(reqs) :
         /\ reqs[r].pc = "saving"
         /\ \E extract \in ExtractOutcomes :
              \E add \in {"ok", "Exception"} :
                LET tried == UploadTry(reqs[r], extract, add, collection, disk,
                                       nextUuid + 1)
                IN  /\ reqs' = [reqs EXCEPT ![r] =
                                  [pc |-> "done", file |-> reqs[r].file,
                                   file_path |-> reqs[r].file_path,
                                   extract |-> extract, put |-> tried.put,
                                   response |-> UploadExcept(tried)]]
                    /\ collection' = tried.collection
                    /\ disk' = tried.disk
                    /\ nextUuid' = IF tried.put.called THEN nextUuid + 1 ELSE nextUuid
    /\ UNCHANGED <<settings, listOut>>
    /\ UNCHANGED chunkVars
    /\ UNCHANGED answerVars

\* GET /documents, the whole handler; at is the number of index entries the
\* listing was computed from.
ListDocuments ==
    /\ \E get \in {"ok", "Exception"} :
         listOut' = IF get = "ok"
                    THEN LET documents == list_documents(collection)
                         IN  [status_code |-> 200, total |-> Len(documents),
                              documents |-> documents, at |-> Len(collection)]
                    ELSE [status_code |-> 500, detail |-> "Error listing documents"]
    /\ UNCHANGED <<settings, reqs, disk, collection, nextUuid>>
    /\ UNCHANGED chunkVars
    /\ UNCHANGED answerVars

IngestNext == UploadBegin \/ UploadFinish \/ ListDocuments

SpecIngest == IngestInit /\ [][IngestNext]_vars

(***************************************************************************)
(* Claims about the ingestion and the index.                               *)
(***************************************************************************)
Done(r) == reqs[r].pc = "done"

\* The request got as far as extracting a text, and the text has no content.
EmptyText(r) ==
    /\ "extract" \in DOMAIN reqs[r]
    /\ reqs[r].extract.kind = "text"
    /\ Strip(reqs[r].extract.text) = <<>>

BadType(r) == Lower(PathSuffix(reqs[r].file.filename)) \notin {".pdf", ".txt", ".docx"}

BadSize(r) == reqs[r].file.size > settings.max_file_size_mb * 1024 * 1024

\* The request called add_documents.
Put(r) == "put" \in DOMAIN reqs[r] /\ reqs[r].put.called

\* The positions in the collection of the entries of document d.
EntriesOf(d) == {i \in 1..Len(collection) : collection[i].metadata.doc_id = d}

\* C8: an upload rejected for its extension, its size or its empty text is
\* answered with a 400, never a 500; for the empty text the staged file is
\* removed and nothing is added to the index.
C8_ValidationIs400 ==
    \A r \in 1..Len(reqs) :
        (Done(r) /\ (BadType(r) \/ BadSize(r) \/ EmptyText(r)))
            => /\ reqs[r].response.status_code = 400
               /\ EmptyText(r) =>
                    /\ reqs[r].file_path \notin disk
                    /\ ~Put(r)

\* C8, the part the code keeps: the extension and size rejections are 400s,
\* and the empty-text rejection removes the staged file and adds nothing.
C8_Kept ==
    \A r \in 1..Len(reqs) :
        Done(r) =>
            /\ (BadType(r) \/ BadSize(r)) => reqs[r].response.status_code = 400
            /\ EmptyText(r) =>
                 /\ reqs[r].response.status_code = 500
                 /\ reqs[r].file_path \notin disk
                 /\ ~Put(r)

\* C9: every index entry has the id "{doc_id}_chunk_{chunk_index}", no two
\* entries share an id, every entry belongs to a put that returned, and the
\* entries of a put that returned N for N chunks are those chunks with the
\* chunk indices 0..N-1; a put that failed left no entry.
C9_ChunkIds ==
    /\ \A i \in 1..Len(collection) :
         /\ collection[i].id = <<collection[i].metadata.doc_id, "_chunk_",
                                 collection[i].metadata.chunk_index>>
         /\ \E r \in 1..Len(reqs) :
              /\ Put(r)
              /\ reqs[r].put.doc_id = collection[i].metadata.doc_id
              /\ reqs[r].response.status_code = 200
    /\ \A i, j \in 1..Len(collection) : i # j => collection[i].id # collection[j].id
    /\ \A r \in 1..Len(reqs) :
         Put(r) =>
            LET chunks == reqs[r].put.chunks
                N      == Len(chunks)
                mine   == EntriesOf(reqs[r].put.doc_id)
            IN  IF reqs[r].put.outcome = "return"
                THEN /\ reqs[r].response.status_code = 200
                     /\ reqs[r].response.doc_id = reqs[r].put.doc_id
                     /\ reqs[r].response.num_chunks = N
                     /\ Cardinality(mine) = N
                     /\ {collection[i].metadata.chunk_index : i \in mine} = 0..(N - 1)
                     /\ \A i \in mine :
                          collection[i].document = chunks[collection[i].metadata.chunk_index + 1]
                ELSE /\ mine = {}
                     /\ reqs[r].response.status_code = 500

\* Two documents of several chunks each in the index.
C9_Witness ==
    /\ Len(reqs) = 2
    /\ \A r \in 1..Len(reqs) :
         /\ Done(r)
         /\ Put(r)
         /\ reqs[r].put.outcome = "return"
         /\ Len(reqs[r].put.chunks) >= 2
    /\ Len(collection) >= 4

\* The entries the last listing was computed from.
Listed == SubSeq(collection, 1, listOut.at)

\* C10: the listing holds exactly one entry per doc_id of the index entries,
\* with the filename of the first entry of that doc_id; it is empty for an
\* empty index, and total is the number of distinct doc_ids.
C10_Listing ==
    listOut.status_code = 200
        => LET ids  == {Listed[i].metadata.doc_id : i \in 1..Len(Listed)}
               docs == listOut.documents
               first(d) == CHOOSE i \in 1..Len(Listed) :
                              /\ Listed[i].metadata.doc_id = d
                              /\ \A j \in 1..(i - 1) : Listed[j].metadata.doc_id # d
           IN  /\ {docs[k].doc_id : k \in 1..Len(docs)} = ids
               /\ \A k, l \in 1..Len(docs) : k # l => docs[k].doc_id # docs[l].doc_id
               /\ \A k \in 1..Len(docs) :
                    docs[k].filename = Listed[first(docs[k].doc_id)].metadata.filename
               /\ Listed = <<>> => docs = <<>>
               /\ listOut.total = Cardinality(ids)
               /\ listOut.total = Len(docs)

\* A listing of two documents with different file names, computed from more
\* index entries than documents.
C10_Witness ==
    /\ listOut.status_code = 200
    /\ listOut.total = 2
    /\ listOut.at >= 3
    /\ listOut.documents[1].filename # listOut.documents[2].filename

=============================================================================
